---- MODULE Spec2Model ----
(***************************************************************************)
(* Model of langchain_mcp_example.py: create_llm (provider dispatch and    *)
(* credential validation) and main (configuration check, MCP client, tool  *)
(* discovery, model creation, agent construction, query selection from the *)
(* command line, the per-query loop with its catch-all handler, exit code). *)
(*                                                                         *)
(* Strings that the program only compares are TLA+ strings.  Strings that  *)
(* the program builds (the joined custom query) are sequences of tokens.   *)
(***************************************************************************)
EXTENDS FiniteSets, Integers, Sequences, TLC

\* ------------------------------------------------------------------ bounds
MaxArgs == 2        \* command-line arguments after the script name
MaxQueries == 2     \* length of the query list in the batch specification

\* --------------------------------------------------------------- constants
Temperature == 0

\* os.getenv returns None for a variable that is not set
None == "<None>"

\* values an environment variable holding a credential can take
CredValues == {None, "", "key"}

\* values LLM_PROVIDER can take
ProviderValues == {None, "openai", "OpenAI", "azure", "claude", "gemini"}

\* str.lower() on the provider selector
Lower(s) ==
    CASE s = "OpenAI" -> "openai"
      [] s = "AZURE" -> "azure"
      [] s = "Claude" -> "claude"
      [] OTHER -> s

\* os.getenv(name, default)
Getenv(v, default) == IF v = None THEN default ELSE v

\* Python truthiness of an Optional[str]
Truthy(v) == v # None /\ v # ""

Environments ==
    [PIA_API_KEY : CredValues,
     LLM_PROVIDER : ProviderValues,
     OPENAI_API_KEY : CredValues,
     AZURE_OPENAI_API_KEY : CredValues,
     AZURE_OPENAI_ENDPOINT : CredValues,
     AZURE_OPENAI_DEPLOYMENT_NAME : CredValues,
     ANTHROPIC_API_KEY : CredValues]

\* ------------------------------------------------------------- create_llm
NoLLM == [ok |-> FALSE, provider |-> None, unknown |-> FALSE, names |-> {},
          api_key |-> None, temperature |-> Temperature]

Handle(provider, key) ==
    [ok |-> TRUE, provider |-> provider, unknown |-> FALSE, names |-> {},
     api_key |-> key, temperature |-> Temperature]

\* ValueError whose message names the given options
RequiredError(provider, names) ==
    [ok |-> FALSE, provider |-> provider, unknown |-> FALSE, names |-> names,
     api_key |-> None, temperature |-> Temperature]

\* ValueError "Unknown provider: ..."
UnknownProviderError(provider) ==
    [ok |-> FALSE, provider |-> provider, unknown |-> TRUE, names |-> {},
     api_key |-> None, temperature |-> Temperature]

AzureNames == {"AZURE_OPENAI_API_KEY", "AZURE_OPENAI_ENDPOINT",
               "AZURE_OPENAI_DEPLOYMENT_NAME"}

\* faulty variant: unknown identities fall back to the default provider
create_llm_fallback(provider, env) ==
    IF provider = "azure"
    THEN IF \A n \in AzureNames : Truthy(env[n])
         THEN Handle("azure", env.AZURE_OPENAI_API_KEY)
         ELSE RequiredError("azure", AzureNames)
    ELSE IF provider = "claude"
    THEN IF ~Truthy(env.ANTHROPIC_API_KEY)
         THEN RequiredError("claude", {"ANTHROPIC_API_KEY"})
         ELSE Handle("claude", env.ANTHROPIC_API_KEY)
    ELSE IF ~Truthy(env.OPENAI_API_KEY)
         THEN RequiredError("openai", {"OPENAI_API_KEY"})
         ELSE Handle("openai", env.OPENAI_API_KEY)

\* faulty variant: the Azure check uses any() where the code uses all()
create_llm_any(provider, env) ==
    IF provider = "openai"
    THEN IF ~Truthy(env.OPENAI_API_KEY)
         THEN RequiredError("openai", {"OPENAI_API_KEY"})
         ELSE Handle("openai", env.OPENAI_API_KEY)
    ELSE IF provider = "azure"
    THEN IF ~(\E n \in AzureNames : Truthy(env[n]))
         THEN RequiredError("azure", AzureNames)
         ELSE Handle("azure", env.AZURE_OPENAI_API_KEY)
    ELSE IF provider = "claude"
    THEN IF ~Truthy(env.ANTHROPIC_API_KEY)
         THEN RequiredError("claude", {"ANTHROPIC_API_KEY"})
         ELSE Handle("claude", env.ANTHROPIC_API_KEY)
    ELSE UnknownProviderError(provider)

create_llm(provider, env) ==
    IF provider = "openai"
    THEN IF ~Truthy(env.OPENAI_API_KEY)
         THEN RequiredError("openai", {"OPENAI_API_KEY"})
         ELSE Handle("openai", env.OPENAI_API_KEY)
    ELSE IF provider = "azure"
    THEN IF ~(\A n \in AzureNames : Truthy(env[n]))
         THEN RequiredError("azure", AzureNames)
         ELSE Handle("azure", env.AZURE_OPENAI_API_KEY)
    ELSE IF provider = "claude"
    THEN IF ~Truthy(env.ANTHROPIC_API_KEY)
         THEN RequiredError("claude", {"ANTHROPIC_API_KEY"})
         ELSE Handle("claude", env.ANTHROPIC_API_KEY)
    ELSE UnknownProviderError(provider)

\* ------------------------------------------------------ command line, text
Space == " "

ScriptName == <<"langchain_mcp_example.py">>

\* the built-in example query, as tokens
ExampleQuery == <<"Search", Space, "for", Space, "fraud", Space,
                  "recommendations", Space, "from", Space, "GAO">>

\* argument strings: empty, one word, and one that itself holds a space
ArgStrings == {<<>>, <<"fraud">>, <<"GAO", Space, "audits">>}

SeqsUpTo(S, n) == UNION {[1..k -> S] : k \in 0..n}

\* sys.argv: the script name followed by the arguments
Argvs == {<<ScriptName>> \o a : a \in SeqsUpTo(ArgStrings, MaxArgs)}

\* " ".join(parts)
RECURSIVE Join(_)
Join(parts) ==
    IF parts = <<>> THEN <<>>
    ELSE IF Len(parts) = 1 THEN parts[1]
    ELSE parts[1] \o <<Space>> \o Join(Tail(parts))

\* the input handed to agent.ainvoke for one query
UserInput(query) == <<[role |-> "user", content |-> query]>>

\* what agent.ainvoke can do: return a state with messages, with an empty
\* message list, a value without "messages", or raise an Exception
Outcomes == {"messages", "empty", "raw", "raise"}

\* tool lists the server can return
ToolLists == {<<>>, <<"search">>}

NoAgent == [built |-> FALSE, model |-> NoLLM, tools |-> <<>>]

\* ------------------------------------------------------------------- state
VARIABLES
    environ,        \* os.environ after load_dotenv()
    argv,           \* sys.argv
    examples,       \* the list literal `queries` of the source
    pc,             \* position in main
    mcp_api_key,    \* local of main
    llm_provider,   \* local of main
    tools,          \* local of main
    llm,            \* local of main: result of create_llm
    agent,          \* local of main
    queries,        \* local of main
    i,              \* loop index of enumerate(queries, 1)
    status,         \* per query: pending, running, ok, error
    submitted,      \* inputs handed to agent.ainvoke, in order
    responses,      \* what agent.ainvoke did for each finished query
    reports,        \* what the loop body printed for each finished query
    trace,          \* calls made by main, in order
    error,          \* exception that propagated out of main
    exitCode        \* process exit status, -1 while running

vars == <<environ, argv, examples, pc, mcp_api_key, llm_provider, tools, llm,
          agent, queries, i, status, submitted, responses, reports, trace,
          error, exitCode>>

InitCommon ==
    /\ environ \in Environments
    /\ pc = "start"
    /\ mcp_api_key = None
    /\ llm_provider = None
    /\ tools = <<>>
    /\ llm = NoLLM
    /\ agent = NoAgent
    /\ queries = <<>>
    /\ i = 0
    /\ status = <<>>
    /\ submitted = <<>>
    /\ responses = <<>>
    /\ reports = <<>>
    /\ trace = <<>>
    /\ error = "none"
    /\ exitCode = -1

\* the program as written: one built-in example query
Init ==
    /\ InitCommon
    /\ argv \in Argvs
    /\ examples = <<ExampleQuery>>

\* the query loop over any list literal of up to MaxQueries queries
QueryTexts == {ExampleQuery, <<"audits">>}

InitBatch ==
    /\ InitCommon
    /\ argv \in {<<ScriptName>>, <<ScriptName, <<"fraud">> >>}
    /\ examples \in SeqsUpTo(QueryTexts, MaxQueries)

\* ----------------------------------------------------------------- actions
\* an exception (or SystemExit) leaves main: asyncio.run re-raises it and the
\* interpreter exits with status 1
Abort(exc) ==
    /\ pc' = "exit"
    /\ error' = exc
    /\ exitCode' = 1

\* faulty variant: only an unset key is rejected, an empty one passes
KeyMissing_unset(k) == k = None

\* `not mcp_api_key`
KeyMissing(k) == ~Truthy(k)

\* main, lines 85-97: read the configuration, exit(1) without a key
ReadConfig ==
    /\ pc = "start"
    /\ mcp_api_key' = environ.PIA_API_KEY
    /\ llm_provider' = Lower(Getenv(environ.LLM_PROVIDER, "openai"))
    /\ IF KeyMissing(environ.PIA_API_KEY)
       THEN Abort("SystemExit")
       ELSE pc' = "connect" /\ UNCHANGED <<error, exitCode>>
    /\ UNCHANGED <<environ, argv, examples, tools, llm, agent, queries, i,
                   status, submitted, responses, reports, trace>>

\* main, lines 99-111: construct MultiServerMCPClient
Connect ==
    /\ pc = "connect"
    /\ trace' = Append(trace, "client")
    /\ pc' = "fetch"
    /\ UNCHANGED <<environ, argv, examples, mcp_api_key, llm_provider, tools,
                   llm, agent, queries, i, status, submitted, responses,
                   reports, error, exitCode>>

\* faulty variant: a failed discovery is swallowed and the run goes on without tools
GetTools_swallow(ok, ts) ==
    /\ pc = "fetch"
    /\ IF ok
       THEN /\ trace' = trace \o <<"get_tools", "tools_ok">>
            /\ tools' = ts
       ELSE /\ trace' = trace \o <<"get_tools", "tools_raise">>
            /\ tools' = <<>>
    /\ pc' = "create_llm"
    /\ UNCHANGED <<environ, argv, examples, mcp_api_key, llm_provider, llm,
                   agent, queries, i, status, submitted, responses, reports,
                   error, exitCode>>

\* main, lines 113-119: await client.get_tools()
GetTools(ok, ts) ==
    /\ pc = "fetch"
    /\ IF ok
       THEN /\ trace' = trace \o <<"get_tools", "tools_ok">>
            /\ tools' = ts
            /\ pc' = "create_llm"
            /\ UNCHANGED <<error, exitCode>>
       ELSE /\ trace' = trace \o <<"get_tools", "tools_raise">>
            /\ tools' = tools
            /\ Abort("ToolDiscoveryError")
    /\ UNCHANGED <<environ, argv, examples, mcp_api_key, llm_provider, llm,
                   agent, queries, i, status, submitted, responses, reports>>

\* main, lines 121-125: llm = create_llm(llm_provider)
CreateLLM ==
    /\ pc = "create_llm"
    /\ llm' = create_llm(llm_provider, environ)
    /\ IF llm'.ok
       THEN /\ trace' = trace \o <<"create_llm", "llm_ok">>
            /\ pc' = "create_agent"
            /\ UNCHANGED <<error, exitCode>>
       ELSE /\ trace' = trace \o <<"create_llm", "llm_raise">>
            /\ Abort("ValueError")
    /\ UNCHANGED <<environ, argv, examples, mcp_api_key, llm_provider, tools,
                   agent, queries, i, status, submitted, responses, reports>>

\* main, lines 127-146: agent = create_agent(model=llm, tools=tools, ...)
CreateAgent(ok) ==
    /\ pc = "create_agent"
    /\ IF ok
       THEN /\ trace' = trace \o <<"create_agent", "agent_ok">>
            /\ agent' = [built |-> TRUE, model |-> llm, tools |-> tools]
            /\ pc' = "select"
            /\ UNCHANGED <<error, exitCode>>
       ELSE /\ trace' = trace \o <<"create_agent", "agent_raise">>
            /\ agent' = agent
            /\ Abort("AgentError")
    /\ UNCHANGED <<environ, argv, examples, mcp_api_key, llm_provider, tools,
                   llm, queries, i, status, submitted, responses, reports>>

\* faulty variant: the custom query is added to the example queries
SelectQueries_append ==
    /\ pc = "select"
    /\ queries' = IF Len(argv) > 1
                  THEN examples \o <<Join(Tail(argv))>>
                  ELSE examples
    /\ status' = [k \in 1..Len(queries') |-> "pending"]
    /\ i' = 1
    /\ pc' = "loop"
    /\ UNCHANGED <<environ, argv, examples, mcp_api_key, llm_provider, tools,
                   llm, agent, submitted, responses, reports, trace, error,
                   exitCode>>

\* main, lines 148-162: the example queries, or the joined arguments
SelectQueries ==
    /\ pc = "select"
    /\ queries' = IF Len(argv) > 1
                  THEN <<Join(Tail(argv))>>
                  ELSE examples
    /\ status' = [k \in 1..Len(queries') |-> "pending"]
    /\ i' = 1
    /\ pc' = "loop"
    /\ UNCHANGED <<environ, argv, examples, mcp_api_key, llm_provider, tools,
                   llm, agent, submitted, responses, reports, trace, error,
                   exitCode>>

\* faulty variant: the input carries the messages of the earlier queries
Submit_accumulate ==
    /\ pc = "loop"
    /\ i <= Len(queries)
    /\ submitted' = Append(submitted,
         [index |-> i,
          messages |-> (IF submitted = <<>> THEN <<>>
                        ELSE submitted[Len(submitted)].messages)
                       \o UserInput(queries[i]),
          thread_id |-> "1"])
    /\ status' = [status EXCEPT ![i] = "running"]
    /\ trace' = Append(trace, "ainvoke")
    /\ pc' = "await"
    /\ UNCHANGED <<environ, argv, examples, mcp_api_key, llm_provider, tools,
                   llm, agent, queries, i, responses, reports, error,
                   exitCode>>

\* faulty variant: the invocation is started and not awaited
Submit_noawait ==
    /\ pc = "loop"
    /\ i <= Len(queries)
    /\ submitted' = Append(submitted,
         [index |-> i, messages |-> UserInput(queries[i]),
          thread_id |-> "1"])
    /\ status' = [status EXCEPT ![i] = "running"]
    /\ trace' = Append(trace, "ainvoke")
    /\ i' = i + 1
    /\ UNCHANGED <<environ, argv, examples, pc, mcp_api_key, llm_provider,
                   tools, llm, agent, queries, responses, reports, error,
                   exitCode>>

\* main, lines 165-178: the loop takes the next query and calls agent.ainvoke
Submit ==
    /\ pc = "loop"
    /\ i <= Len(queries)
    /\ submitted' = Append(submitted,
         [index |-> i, messages |-> UserInput(queries[i]),
          thread_id |-> "1"])
    /\ status' = [status EXCEPT ![i] = "running"]
    /\ trace' = Append(trace, "ainvoke")
    /\ pc' = "await"
    /\ UNCHANGED <<environ, argv, examples, mcp_api_key, llm_provider, tools,
                   llm, agent, queries, i, responses, reports, error,
                   exitCode>>

\* what the loop body prints for a response, lines 180-209
Report(outcome) ==
    CASE outcome = "messages" -> "response"
      [] outcome = "empty" -> "no messages"
      [] outcome = "raw" -> "raw response"
      [] outcome = "raise" -> "error"

\* faulty variant: no handler around the invocation, the exception leaves main
Return_nocatch(outcome) ==
    /\ pc = "await"
    /\ responses' = Append(responses, outcome)
    /\ IF outcome = "raise"
       THEN /\ status' = [status EXCEPT ![i] = "error"]
            /\ reports' = reports
            /\ i' = i
            /\ Abort("Exception")
       ELSE /\ status' = [status EXCEPT ![i] = "ok"]
            /\ reports' = Append(reports, Report(outcome))
            /\ i' = i + 1
            /\ pc' = "loop"
            /\ UNCHANGED <<error, exitCode>>
    /\ UNCHANGED <<environ, argv, examples, mcp_api_key, llm_provider, tools,
                   llm, agent, queries, submitted, trace>>

\* main, lines 175-211: agent.ainvoke returns or raises; the result or the
\* caught exception is printed and the loop moves on
Return(outcome) ==
    /\ pc = "await"
    /\ responses' = Append(responses, outcome)
    /\ status' = [status EXCEPT
                    ![i] = IF outcome = "raise" THEN "error" ELSE "ok"]
    /\ reports' = Append(reports, Report(outcome))
    /\ i' = i + 1
    /\ pc' = "loop"
    /\ UNCHANGED <<environ, argv, examples, mcp_api_key, llm_provider, tools,
                   llm, agent, queries, submitted, trace, error, exitCode>>

\* main, lines 213-218 and 221-222: "Example complete", asyncio.run returns
Complete ==
    /\ pc = "loop"
    /\ i > Len(queries)
    /\ trace' = Append(trace, "complete")
    /\ pc' = "exit"
    /\ exitCode' = 0
    /\ UNCHANGED <<environ, argv, examples, mcp_api_key, llm_provider, tools,
                   llm, agent, queries, i, status, submitted, responses,
                   reports, error>>

Next ==
    \/ ReadConfig
    \/ Connect
    \/ \E ok \in BOOLEAN, ts \in ToolLists : GetTools(ok, ts)
    \/ CreateLLM
    \/ \E ok \in BOOLEAN : CreateAgent(ok)
    \/ SelectQueries
    \/ Submit
    \/ \E outcome \in Outcomes : Return(outcome)
    \/ Complete

Spec == Init /\ [][Next]_vars

SpecBatch == InitBatch /\ [][Next]_vars

\* ------------------------------------------------------ auxiliary notions
Has(e) == \E k \in DOMAIN trace : trace[k] = e

Supported == {"openai", "azure", "claude"}

\* the options the documentation requires for each provider
RequiredOptions(p) ==
    CASE p = "openai" -> {"OPENAI_API_KEY"}
      [] p = "azure" -> {"AZURE_OPENAI_API_KEY", "AZURE_OPENAI_ENDPOINT",
                         "AZURE_OPENAI_DEPLOYMENT_NAME"}
      [] p = "claude" -> {"ANTHROPIC_API_KEY"}
      [] OTHER -> {}

\* the provider the environment selects, case-insensitively
SelectedProvider ==
    IF environ.LLM_PROVIDER = None THEN "openai"
    ELSE IF environ.LLM_PROVIDER \in {"openai", "OpenAI"} THEN "openai"
    ELSE environ.LLM_PROVIDER

MissingOptions ==
    {n \in RequiredOptions(SelectedProvider) :
        environ[n] = None \/ environ[n] = ""}

PiaKeyMissing == environ.PIA_API_KEY = None \/ environ.PIA_API_KEY = ""

\* number of tokens of " ".join(args) that precede argument k
RECURSIVE Offset(_, _)
Offset(args, k) ==
    IF k <= 1 THEN 0 ELSE Offset(args, k - 1) + Len(args[k - 1]) + 1

\* q is the arguments in order, separated by single spaces
IsJoined(q, args) ==
    /\ Len(q) = Offset(args, Len(args) + 1) - 1
    /\ \A k \in 1..Len(args) :
         /\ \A j \in 1..Len(args[k]) : q[Offset(args, k) + j] = args[k][j]
         /\ k < Len(args) => q[Offset(args, k) + Len(args[k]) + 1] = Space

Startup == <<"client", "get_tools", "tools_ok", "create_llm", "llm_ok",
             "create_agent", "agent_ok">>

\* ------------------------------------------------------------------ claims

\* C1: with PIA_API_KEY absent or empty the process exits with status 1
\* before any network activity: no client, no tool discovery, no model
\* handle, no agent and no query submission ever happen.
C1_NoNetworkWithoutKey ==
    PiaKeyMissing =>
        /\ trace = <<>>
        /\ submitted = <<>>
        /\ ~llm.ok
        /\ ~agent.built
        /\ pc # "start" => (pc = "exit" /\ exitCode = 1)

C1_Witness ==
    /\ environ.PIA_API_KEY = ""
    /\ pc = "exit"
    /\ exitCode = 1
    /\ error = "SystemExit"

\* C2: a configuration error of the model provider (missing credential or
\* unrecognized selector) is raised before tool discovery is attempted.
C2_ConfigErrorBeforeDiscovery ==
    error = "ValueError" => ~Has("get_tools")

\* C3 (as stated): the exit code is 1 when a required credential is missing
\* and 0 in every other run.
C3_ExitOneOnlyForMissingCredential ==
    pc = "exit" =>
        exitCode = (IF PiaKeyMissing \/ MissingOptions # {} THEN 1 ELSE 0)

\* C3 (amended): the exit code is 1 when a required credential is missing,
\* the provider selector is unrecognized, or tool discovery or agent
\* construction raises, and 0 in every other run; an exception raised while
\* executing a query is reported for that query and neither changes the exit
\* code nor aborts the process.
C3_ExitCode ==
    /\ pc = "exit" =>
         exitCode = (IF \/ PiaKeyMissing
                        \/ MissingOptions # {}
                        \/ SelectedProvider \notin Supported
                        \/ Has("tools_raise")
                        \/ Has("agent_raise")
                     THEN 1 ELSE 0)
    /\ \A k \in 1..Len(responses) :
         responses[k] = "raise" =>
            /\ reports[k] = "error"
            /\ error = "none"
            /\ exitCode # 1
            /\ pc = "exit" => (exitCode = 0 /\ Has("complete"))

C3_Witness ==
    /\ pc = "exit"
    /\ exitCode = 0
    /\ \E k \in 1..Len(responses) : responses[k] = "raise"

\* C4: a query whose invocation raises is reported as a failure for that
\* query only; every later query is still submitted with exactly its own
\* user message as input, and the run reaches "Example complete".
C4_SequentialIsolation ==
    /\ \A k \in 1..Len(submitted) :
         /\ submitted[k].index = k
         /\ submitted[k].messages = <<[role |-> "user", content |-> queries[k]]>>
    /\ Len(reports) = Len(responses)
    /\ \A k \in 1..Len(responses) :
         (reports[k] = "error") <=> (responses[k] = "raise")
    /\ (Has("agent_ok") /\ pc = "exit") =>
         /\ Has("complete")
         /\ Len(submitted) = Len(queries)
         /\ Len(responses) = Len(queries)

C4_Witness ==
    /\ pc = "exit"
    /\ Has("complete")
    /\ Len(responses) = 2
    /\ responses[1] = "raise"
    /\ responses[2] = "messages"
    /\ submitted[2].messages = UserInput(queries[2])

\* C5: queries are processed strictly in list order, at most one is in
\* progress, and query k+1 is not submitted before query k is terminal.
C5_StrictlySequential ==
    /\ Cardinality({k \in DOMAIN status : status[k] = "running"}) <= 1
    /\ \A k \in DOMAIN status :
         status[k] # "pending" =>
            \A j \in 1..(k - 1) : status[j] \in {"ok", "error"}
    /\ Len(submitted) <= Len(responses) + 1

C5_Witness ==
    /\ Len(status) = 2
    /\ status[1] = "error"
    /\ status[2] = "running"

\* C6: a model handle exists only for 'openai', 'azure' and 'claude' with
\* complete credentials; any other identity fails as unknown provider with
\* no handle and no fallback; with no selector configured 'openai' is used.
C6_ClosedProviderSet ==
    /\ llm.ok => (llm.provider \in Supported /\ llm.provider = llm_provider)
    /\ llm.ok => (SelectedProvider \in Supported /\ MissingOptions = {})
    /\ llm.unknown => llm_provider \notin Supported
    /\ (Has("create_llm") /\ llm_provider \notin Supported) =>
         /\ ~llm.ok
         /\ llm.unknown
         /\ error = "ValueError"
         /\ ~agent.built
         /\ submitted = <<>>
    /\ (Has("create_llm") /\ llm_provider \in Supported
          /\ MissingOptions = {}) => llm.ok
    /\ (pc # "start" /\ environ.LLM_PROVIDER = None) => llm_provider = "openai"

C6_Witness ==
    /\ Has("create_llm")
    /\ llm_provider = "gemini"
    /\ llm.unknown
    /\ pc = "exit"

\* C7 (as stated): with a non-empty set of required credentials missing the
\* error names exactly the missing ones; with none missing a handle results.
C7_ErrorNamesExactlyMissing ==
    (Has("create_llm") /\ llm_provider \in Supported) =>
        IF MissingOptions = {}
        THEN llm.ok
        ELSE ~llm.ok /\ ~llm.unknown /\ llm.names = MissingOptions

\* C7 (amended): with a non-empty set of required credentials missing the
\* error names all required options of the provider, hence every missing
\* one (for Azure all three, whichever is missing); with none missing a
\* handle results.
C7_ErrorNamesRequired ==
    (Has("create_llm") /\ llm_provider \in Supported) =>
        IF MissingOptions = {}
        THEN llm.ok
        ELSE /\ ~llm.ok
             /\ ~llm.unknown
             /\ MissingOptions \subseteq llm.names
             /\ llm.names = RequiredOptions(llm_provider)
             /\ error = "ValueError"

C7_Witness ==
    /\ Has("create_llm")
    /\ llm_provider = "azure"
    /\ MissingOptions = {"AZURE_OPENAI_ENDPOINT"}
    /\ llm.names = AzureNames

\* C9: with arguments the run submits exactly one query, the arguments
\* joined by single spaces in order; without arguments exactly the built-in
\* example query; a run that reaches the loop submits exactly one query.
C9_QuerySelection ==
    /\ pc \in {"loop", "await"} \/ Has("complete") =>
         /\ Len(queries) = 1
         /\ IF Len(argv) > 1
            THEN IsJoined(queries[1], Tail(argv))
            ELSE queries[1] = ExampleQuery
    /\ Len(submitted) <= 1
    /\ \A k \in 1..Len(submitted) :
         submitted[k].messages[1].content = queries[1]
    /\ Has("complete") => Len(submitted) = 1

C9_Witness ==
    /\ Has("complete")
    /\ Len(argv) = 3
    /\ argv[2] = <<"GAO", Space, "audits">>
    /\ Len(submitted) = 1
    /\ submitted[1].messages[1].content # ExampleQuery

\* C10: a failed tool discovery ends the run with no model handle, agent,
\* query or completion; every query submission follows exactly one client
\* construction, successful discovery, model creation and agent
\* construction, in that order, none repeated per query.
C10_DiscoveryFatal ==
    /\ Has("tools_raise") =>
         /\ pc = "exit"
         /\ exitCode = 1
         /\ ~Has("create_llm")
         /\ ~llm.ok
         /\ ~agent.built
         /\ submitted = <<>>
         /\ ~Has("complete")
    /\ submitted # <<>> =>
         /\ Len(trace) > Len(Startup)
         /\ SubSeq(trace, 1, Len(Startup)) = Startup
         /\ \A k \in (Len(Startup) + 1)..Len(trace) :
              trace[k] \in {"ainvoke", "complete"}
         /\ agent.built /\ agent.model = llm /\ agent.tools = tools

C10_Witness ==
    /\ Len(submitted) = 2
    /\ Has("complete")
    /\ Len(trace) = Len(Startup) + 3

====
